---- MODULE Spec2Model ----
(***************************************************************************)
(* State-machine model of aa-proxy-wican (src/src/main.rs): the outer poll *)
(* loop of main, connect_to_device (find_device, try_pair, the bounded     *)
(* connect retry with removal of the pairing on exhaustion), and           *)
(* fetch_data (find_characteristics, subscribe, command write, the         *)
(* timer/notification race, decoding and mapping of the response).         *)
(*                                                                         *)
(* The platform (BlueZ through bluer), the peripheral and the HTTP sink    *)
(* are the environment: every platform call is one step whose outcome is   *)
(* drawn from the outcomes the call can have.                              *)
(***************************************************************************)
EXTENDS Integers, Sequences, FiniteSets, TLC

\* ------------------------------------------------------------------ bounds

\* Largest value of --wican-max-connect-retries explored (the option is a u8).
MaxRetries == 2
\* Largest number of services in a service tree, and of characteristics in
\* one service.
MaxServices == 2
MaxChars == 2

\* ------------------------------------------------------------- configuration

\* Values of --vehicle-battery-capacity explored.
Capacities == {64000, 77400}

\* ---------------------------------------------------------------- state

VARIABLES
    pc,                 \* where main (and the function it is in) stands
    first_run,          \* main's first_run
    prev_exhausted,     \* a cycle before this one removed the pairing and
                        \* ended with the exhaustion error, and this is
                        \* the first since to locate the device
    max_retries,        \* configuration.wican_max_connect_retries
    vehicle_battery_capacity,
    dev,                \* the adapter's record of the device
    paired,             \* the device's Paired property
    connected,          \* the device's Connected property
    i,                  \* connect_to_device's loop variable
    conn_result,        \* what connect_to_device returned
    scan,               \* the discovery event stream
    tree,               \* find_characteristics' services
    notify_char,        \* fetch_data's notify_char
    write_char,         \* fetch_data's write_char
    timer_elapsed,      \* fetch_data's timeout has reached its deadline
    notif_stream,       \* fetch_data's notif_stream
    select_arm,         \* the arm of select! that completed
    fetch_result,       \* what fetch_data returned
    calls               \* the calls of this cycle, in order

\* ------------------------------------------------------------ JSON payloads

\* A JSON value as serde sees it where a number is expected.
Num(n) == [t |-> "num", v |-> n]
Null == [t |-> "null", v |-> 0]
Str == [t |-> "str", v |-> 0]
Absent == [t |-> "absent", v |-> 0]

\* Numbers a response carries; all are exactly representable as f32.
Nums == {55, 58}
JsonValues == {Num(n) : n \in Nums} \cup {Null, Str}

\* Member names: the three fields of WicanResponse under their Rust names
\* and under their serde aliases, and one name the struct does not know.
FieldNames == {"soc", "soc_d", "outdoor_temperature"}
Alias(f) ==
    CASE f = "soc" -> "SOC"
      [] f = "soc_d" -> "SOC_D"
      [] f = "outdoor_temperature" -> "OUTDOOR_TEMPERATURE"
UnknownKey == "battery_capacity_wh"
Keys == FieldNames \cup {Alias(f) : f \in FieldNames} \cup {UnknownKey}

NoMembers == [k \in Keys |-> Absent]
NoElems == << >>

\* The bytes of one notification.  kind:
\*   "bad_utf8"  not valid UTF-8
\*   "not_json"  UTF-8 text that is not JSON
\*   "scalar"    a JSON number, string, boolean or null
\*   "object"    a JSON object, m its members (Absent: no such member)
\*   "array"     a JSON array, elems its elements
\* Trailing whitespace is not modelled: trim_end removes it and serde_json
\* accepts it, so it changes no outcome.
BadUtf8 == [kind |-> "bad_utf8", m |-> NoMembers, elems |-> NoElems]
NotJson == [kind |-> "not_json", m |-> NoMembers, elems |-> NoElems]
Scalar == [kind |-> "scalar", m |-> NoMembers, elems |-> NoElems]
Object(m) == [kind |-> "object", m |-> m, elems |-> NoElems]
Array(es) == [kind |-> "array", m |-> NoMembers, elems |-> es]

\* The unknown member, when present, carries a number.
ObjectPayloads ==
    {Object(m) : m \in {f \in [Keys -> JsonValues \cup {Absent}] :
                          f[UnknownKey] \in {Absent, Num(55)}}}
ArrayPayloads ==
    {Array(es) : es \in UNION {[1..n -> JsonValues] : n \in 0..3}}
AllPayloads == {BadUtf8, NotJson, Scalar} \cup ObjectPayloads \cup ArrayPayloads

\* An object with the given members and no other.
Obj(ms) == Object([k \in Keys |-> IF k \in DOMAIN ms THEN ms[k] ELSE Absent])

\* The payloads the whole-program specification delivers.
SamplePayloads ==
    { BadUtf8, NotJson,
      Obj([SOC |-> Num(55)]),
      Obj([SOC |-> Num(55), SOC_D |-> Num(58)]),
      Obj([SOC |-> Num(55), OUTDOOR_TEMPERATURE |-> Num(58)]),
      Obj([SOC_D |-> Num(58)]) }

\* ------------------------------------------------------------ Rust values

None == [t |-> "none", v |-> 0]
Some(n) == [t |-> "some", v |-> n]

\* Result<WicanResponse>: ok = FALSE is the serde error.
ParseErr == [ok |-> FALSE, soc |-> 0, soc_d |-> None, outdoor_temperature |-> None]
ParseOk(s, d, o) == [ok |-> TRUE, soc |-> s, soc_d |-> d, outdoor_temperature |-> o]

\* String::from_utf8
FromUtf8Ok(p) == p.kind # "bad_utf8"

\* The member of object m that serde assigns to field f: a member named f
\* or named by f's alias.  Both present is serde's duplicate-field error.
Duplicate(m, f) == m[f] # Absent /\ m[Alias(f)] # Absent
Member(m, f) == IF m[f] # Absent THEN m[f] ELSE m[Alias(f)]

\* Deserialising one value as f32 (soc) and as Option<f32> (the other two).
F32Ok(val) == val.t = "num"
OptF32Ok(val) == val.t \in {"num", "null", "absent"}
OptF32(val) == IF val.t = "num" THEN Some(val.v) ELSE None

\* serde_json::from_str::<WicanResponse>: the derived Deserialize.
\* An object: every known member is assigned to its field (unknown members
\* are ignored), soc is required.  An array: the fields by position.
ParseObject(m) ==
    IF /\ \A f \in FieldNames : ~Duplicate(m, f)
       /\ F32Ok(Member(m, "soc"))
       /\ OptF32Ok(Member(m, "soc_d"))
       /\ OptF32Ok(Member(m, "outdoor_temperature"))
    THEN ParseOk(Member(m, "soc").v,
                 OptF32(Member(m, "soc_d")),
                 OptF32(Member(m, "outdoor_temperature")))
    ELSE ParseErr

ParseArray(es) ==
    IF Len(es) = 3 /\ F32Ok(es[1]) /\ OptF32Ok(es[2]) /\ OptF32Ok(es[3])
    THEN ParseOk(es[1].v, OptF32(es[2]), OptF32(es[3]))
    ELSE ParseErr

FromStr(p) ==
    CASE p.kind = "object" -> ParseObject(p.m)
      [] p.kind = "array" -> ParseArray(p.elems)
      [] OTHER -> ParseErr

\* BatteryData (every field an Option).
BatteryData(pct, temp, cap) ==
    [ battery_level_percentage |-> pct,
      battery_level_wh |-> None,
      reference_air_density |-> None,
      external_temp_celsius |-> temp,
      battery_capacity_wh |-> cap ]
NoData == BatteryData(None, None, None)

\* Result<Option<BatteryData>> of fetch_data; "pending" before it returns.
\* An error is named by its outermost message.
FetchPending == [tag |-> "pending", data |-> NoData, err |-> ""]
FetchNone == [tag |-> "None", data |-> NoData, err |-> ""]
FetchSome(d) == [tag |-> "Some", data |-> d, err |-> ""]
FetchErr(e) == [tag |-> "Err", data |-> NoData, err |-> e]

\* The reading built from a parsed response (the BatteryData literal).
MapReading(resp, cap) ==
    BatteryData(IF resp.soc_d.t = "some" THEN resp.soc_d ELSE Some(resp.soc),
                resp.outdoor_temperature,
                Some(cap))

\* The select! arm of the timer (variant: the timeout as an error).
MutTimeoutArm == FetchErr("NoResponse")
\* (variant: a notification that has arrived by then is decoded after all)
MutTimeoutArmLate ==
    IF /\ notif_stream.st = "item"
       /\ FromUtf8Ok(notif_stream.item)
       /\ FromStr(notif_stream.item).ok
    THEN FetchSome(MapReading(FromStr(notif_stream.item),
                              vehicle_battery_capacity))
    ELSE FetchNone
TimeoutArm == FetchNone

\* The select! arm of notif_stream.next() when the stream yields Some(n)
\* (variant: a decode failure swallowed as no reading).
MutDecode(p, cap) ==
    IF ~FromUtf8Ok(p) \/ ~FromStr(p).ok
    THEN FetchNone
    ELSE FetchSome(MapReading(FromStr(p), cap))
Decode(p, cap) ==
    IF ~FromUtf8Ok(p)
    THEN FetchErr("DecodeError")
    ELSE IF ~FromStr(p).ok
         THEN FetchErr("DecodeError")
         ELSE FetchSome(MapReading(FromStr(p), cap))

\* The notification stream as fetch_data sees it: not yet subscribed, open
\* with nothing delivered, holding a first item, or ended.
StreamIdle == [st |-> "idle", item |-> NotJson]
StreamEmpty == [st |-> "empty", item |-> NotJson]
StreamItem(p) == [st |-> "item", item |-> p]
StreamClosed == [st |-> "closed", item |-> NotJson]

\* The select! arm of notif_stream.next(): Some(n) or None.
NotificationArm(s, cap) ==
    IF s.st = "item" THEN Decode(s.item, cap) ELSE FetchNone

\* ------------------------------------------------------------ service tree

Uuids == {"WICAN_NOTIFY_UUID", "WICAN_WRITE_UUID", "other"}
Services == UNION {[1..n -> Uuids] : n \in 0..MaxChars}
Trees == UNION {[1..n -> Services] : n \in 0..MaxServices}

\* find_characteristics' services: unset before device.services() returns
\* and after find_characteristics has returned.
NoTree == [some |-> FALSE, t |-> << >>]
SomeTree(t) == [some |-> TRUE, t |-> t]

\* The trees the whole-program specification enumerates.
SampleTrees ==
    { << >>,
      << << "WICAN_NOTIFY_UUID", "WICAN_WRITE_UUID" >> >>,
      << << "other", "WICAN_WRITE_UUID" >>, << "WICAN_NOTIFY_UUID" >> >>,
      << << "WICAN_NOTIFY_UUID", "WICAN_NOTIFY_UUID" >>,
         << "WICAN_WRITE_UUID", "WICAN_WRITE_UUID" >> >>,
      << << "WICAN_NOTIFY_UUID" >>, << "other" >> >>,
      << << >>, << "WICAN_WRITE_UUID" >> >> }

\* A characteristic is named by its place in the tree; NoChar is None.
NoChar == <<0, 0>>

\* The two nested for loops of find_characteristics, from characteristic c
\* of service s on, n and w the two Options so far.
RECURSIVE Enumerate(_, _, _, _, _)
Enumerate(t, s, c, n, w) ==
    IF s > Len(t) THEN <<n, w>>
    ELSE IF c > Len(t[s]) THEN Enumerate(t, s + 1, 1, n, w)
    ELSE IF t[s][c] = "WICAN_NOTIFY_UUID" THEN Enumerate(t, s, c + 1, <<s, c>>, w)
    ELSE IF t[s][c] = "WICAN_WRITE_UUID" THEN Enumerate(t, s, c + 1, n, <<s, c>>)
    ELSE Enumerate(t, s, c + 1, n, w)

\* The two ok_or_else: both characteristics or an error (variant: one of
\* the two is enough).
MutResolved(nw) == nw[1] # NoChar \/ nw[2] # NoChar
Resolved(nw) == nw[1] # NoChar /\ nw[2] # NoChar

vars == << pc, first_run, prev_exhausted, max_retries, vehicle_battery_capacity, dev, paired,
           connected, i, conn_result, scan, tree, notify_char, write_char,
           timer_elapsed, notif_stream, select_arm, fetch_result, calls >>

loopVars == << first_run, prev_exhausted >>
config == << max_retries, vehicle_battery_capacity >>
platform == << dev, paired, connected >>
fetchLocals == << tree, notify_char, write_char, timer_elapsed, notif_stream,
                 select_arm >>

\* dev: "unknown" when the adapter has no object for the address (a
\* property read of it fails), else whether its services are resolved.
DevStates == {"unknown", "unresolved", "resolved"}
Known(d) == d # "unknown"

\* The call c is made: calls records it.
Called(c) == calls' = Append(calls, c)

Init ==
    /\ pc = "loop"
    /\ first_run = TRUE
    /\ prev_exhausted = FALSE
    /\ max_retries \in 0..MaxRetries
    /\ vehicle_battery_capacity \in Capacities
    /\ dev \in DevStates
    /\ paired \in BOOLEAN
    /\ connected \in BOOLEAN
    /\ (dev = "unknown") => (~paired /\ ~connected)
    /\ i = 0
    /\ conn_result = "pending"
    /\ scan = "idle"
    /\ tree = NoTree
    /\ notify_char = NoChar
    /\ write_char = NoChar
    /\ timer_elapsed = FALSE
    /\ notif_stream = StreamIdle
    /\ select_arm = "none"
    /\ fetch_result = FetchPending
    /\ calls = << >>

\* ------------------------------------------------------------ main's loop

resetCycle ==
    /\ i' = 0
    /\ conn_result' = "pending"
    /\ scan' = "idle"
    /\ tree' = NoTree
    /\ notify_char' = NoChar
    /\ write_char' = NoChar
    /\ timer_elapsed' = FALSE
    /\ notif_stream' = StreamIdle
    /\ select_arm' = "none"
    /\ fetch_result' = FetchPending

\* At the end of a cycle: the cycle removed the pairing record and ended
\* with ConnectionExhausted, or an earlier one did and no cycle since has
\* located the device (none got as far as try_pair).
PairingLost ==
    \/ conn_result = "Err:ConnectionExhausted"
    \/ (prev_exhausted /\ \A k \in 1..Len(calls) : calls[k] # "is_paired")

\* Top of the loop on the first run: no sleep.
FirstCycle ==
    /\ pc = "loop"
    /\ first_run
    /\ first_run' = FALSE
    /\ prev_exhausted' = PairingLost
    /\ calls' = << >>
    /\ pc' = "session"
    /\ resetCycle
    /\ UNCHANGED << config, platform >>

\* (variant: the Err arms' continue goes round without the sleep).
MutNextCycle ==
    /\ pc = "loop"
    /\ ~first_run
    /\ first_run' = FALSE
    /\ prev_exhausted' = PairingLost
    /\ calls' = IF conn_result = "Ok" /\ fetch_result.tag # "Err"
                THEN << "sleep_update" >> ELSE << >>
    /\ \E d \in DevStates : \E c \in BOOLEAN :
          /\ paired => Known(d)
          /\ c => Known(d)
          /\ dev' = d
          /\ connected' = c
    /\ pc' = "session"
    /\ resetCycle
    /\ UNCHANGED << config, paired >>

\* Top of the loop on every later run: sleep the update interval.  While
\* the process sleeps the link may come up or go down and an unpaired
\* device may appear to or vanish from the adapter; the pairing stays.
NextCycle ==
    /\ pc = "loop"
    /\ ~first_run
    /\ first_run' = FALSE
    /\ prev_exhausted' = PairingLost
    /\ calls' = << "sleep_update" >>
    /\ \E d \in DevStates : \E c \in BOOLEAN :
          /\ paired => Known(d)
          /\ c => Known(d)
          /\ dev' = d
          /\ connected' = c
    /\ pc' = "session"
    /\ resetCycle
    /\ UNCHANGED << config, paired >>

\* An error returned by main ends the process.
SessionNew ==
    /\ pc = "session"
    /\ \E ok \in BOOLEAN : pc' = IF ok THEN "adapter" ELSE "exited"
    /\ UNCHANGED << loopVars, config, platform, i, conn_result, scan,
                    fetchLocals, fetch_result, calls >>

DefaultAdapter ==
    /\ pc = "adapter"
    /\ \E ok \in BOOLEAN : pc' = IF ok THEN "probe" ELSE "exited"
    /\ UNCHANGED << loopVars, config, platform, i, conn_result, scan,
                    fetchLocals, fetch_result, calls >>

\* connect_to_device returns r to main's match.
returnConnect(r) ==
    /\ conn_result' = r
    /\ pc' = "connect_returned"

\* ------------------------------------------------------------ find_device

\* adapter.device(addr)?.is_services_resolved().await.is_ok()
\* (variant: is_err()).
MutProbeIsOk(d) == ~Known(d)
ProbeIsOk(d) == Known(d)

Probe ==
    /\ pc = "probe"
    /\ Called("is_services_resolved")
    /\ pc' = IF ProbeIsOk(dev) THEN "is_paired" ELSE "discover"
    /\ UNCHANGED << loopVars, config, platform, i, conn_result, scan,
                    fetchLocals, fetch_result >>

Discover ==
    /\ pc = "discover"
    /\ Called("discover_devices")
    /\ \E ok \in BOOLEAN :
          IF ok
          THEN scan' = "open" /\ pc' = "scan" /\ UNCHANGED conn_result
          ELSE scan' = "idle" /\ returnConnect("Err:Platform")
    /\ UNCHANGED << loopVars, config, platform, i, fetchLocals, fetch_result >>

\* DeviceAdded for the configured address: the adapter now knows the device.
ScanDeviceAdded ==
    /\ pc = "scan"
    /\ scan = "open"
    /\ dev' = IF Known(dev) THEN dev ELSE "unresolved"
    /\ scan' = "idle"
    /\ pc' = "is_paired"
    /\ UNCHANGED << loopVars, config, paired, connected, i, conn_result,
                    fetchLocals, fetch_result, calls >>

\* Any other event, and None from an ended stream: the loop goes round
\* and only a matching event or the timeout leaves it.
ScanOtherEvent ==
    /\ pc = "scan"
    /\ UNCHANGED vars

\* The event stream ends.  From then on next() yields None on every poll:
\* either the ended stream still hands control back to the runtime between
\* polls ("ended"), or every poll completes at once and the loop never
\* suspends ("spinning"); which, the stream's implementation decides.
ScanStreamEnds ==
    /\ pc = "scan"
    /\ scan = "open"
    /\ scan' \in {"ended", "spinning"}
    /\ UNCHANGED << pc, loopVars, config, platform, i, conn_result,
                    fetchLocals, fetch_result, calls >>

\* tokio::time::timeout polls the loop first and its timer only when
\* the loop is suspended: a loop that never suspends is never timed out.
ScanTimeout ==
    /\ pc = "scan"
    /\ scan # "spinning"
    /\ scan' = "idle"
    /\ returnConnect("Err:DiscoveryTimeout")
    /\ UNCHANGED << loopVars, config, platform, i, fetchLocals,
                    fetch_result, calls >>

\* --------------------------------------------------------------- try_pair

\* if device.is_paired().await? { return Ok(()) }
\* (variant: the early return is missing).
MutSkipPairing(p) == FALSE
SkipPairing(p) == p

IsPaired ==
    /\ pc = "is_paired"
    /\ Called("is_paired")
    /\ \E ok \in BOOLEAN :
          IF ~ok THEN returnConnect("Err:Platform")
          ELSE /\ pc' = IF SkipPairing(paired) THEN "is_connected"
                        ELSE "register_agent"
               /\ UNCHANGED conn_result
    /\ UNCHANGED << loopVars, config, platform, i, scan, fetchLocals,
                    fetch_result >>

RegisterAgent ==
    /\ pc = "register_agent"
    /\ Called("register_agent")
    /\ \E ok \in BOOLEAN :
          IF ok THEN pc' = "pair" /\ UNCHANGED conn_result
          ELSE returnConnect("Err:Platform")
    /\ UNCHANGED << loopVars, config, platform, i, scan, fetchLocals,
                    fetch_result >>

\* device.pair(): on success the device is paired; pairing may leave the
\* link up.
Pair ==
    /\ pc = "pair"
    /\ Called("pair")
    /\ \E ok \in BOOLEAN :
          IF ok
          THEN /\ paired' = TRUE
               /\ connected' \in {connected, TRUE}
               /\ pc' = "is_connected"
               /\ UNCHANGED conn_result
          ELSE /\ returnConnect("Err:PairingFailed")
               /\ UNCHANGED << paired, connected >>
    /\ UNCHANGED << loopVars, config, dev, i, scan, fetchLocals,
                    fetch_result >>

\* ------------------------------------------------------ connect_to_device

\* for i in 0..max_retries
LoopRuns(idx, n) == idx < n

\* After a failed attempt: another round after the backoff, or the removal
\* of the pairing (variant: the error is returned without the removal).
MutAfterFailureAlways(idx, n) == "remove"
MutAfterFailure(idx, n) == IF idx + 1 < n THEN "backoff" ELSE "exhausted"
AfterFailure(idx, n) == IF idx + 1 < n THEN "backoff" ELSE "remove"

IsConnected ==
    /\ pc = "is_connected"
    /\ Called("is_connected")
    /\ i' = 0
    /\ \E ok \in BOOLEAN :
          IF ~ok THEN returnConnect("Err:Platform")
          ELSE IF connected THEN returnConnect("Ok")
          ELSE IF LoopRuns(0, max_retries)
               THEN pc' = "connect" /\ UNCHANGED conn_result
               ELSE returnConnect("Ok")
    /\ UNCHANGED << loopVars, config, platform, scan, fetchLocals,
                    fetch_result >>

Connect ==
    /\ pc = "connect"
    /\ \E ok \in BOOLEAN :
          IF ok
          THEN /\ Called("connect:ok")
               /\ connected' = TRUE
               /\ returnConnect("Ok")
          ELSE /\ Called("connect:err")
               /\ pc' = AfterFailure(i, max_retries)
               /\ UNCHANGED << connected, conn_result >>
    /\ UNCHANGED << loopVars, config, dev, paired, i, scan, fetchLocals,
                    fetch_result >>

Backoff ==
    /\ pc = "backoff"
    /\ Called("sleep_backoff")
    /\ i' = i + 1
    /\ IF LoopRuns(i + 1, max_retries)
       THEN pc' = "connect" /\ UNCHANGED conn_result
       ELSE returnConnect("Ok")
    /\ UNCHANGED << loopVars, config, platform, scan, fetchLocals,
                    fetch_result >>

\* adapter.remove_device(..).await.context("Failed to remove pairing")?
\* (variant: the call drops the link and keeps the bond).
MutRemoveDevice ==
    /\ pc = "remove"
    /\ \E ok \in BOOLEAN :
          IF ok
          THEN /\ Called("remove_device:ok")
               /\ connected' = FALSE
               /\ pc' = "exhausted"
               /\ UNCHANGED << dev, paired, conn_result >>
          ELSE /\ Called("remove_device:err")
               /\ returnConnect("Err:UnpairFailed")
               /\ UNCHANGED platform
    /\ UNCHANGED << loopVars, config, i, scan, fetchLocals, fetch_result >>

RemoveDevice ==
    /\ pc = "remove"
    /\ \E ok \in BOOLEAN :
          IF ok
          THEN /\ Called("remove_device:ok")
               /\ dev' = "unknown"
               /\ paired' = FALSE
               /\ connected' = FALSE
               /\ pc' = "exhausted"
               /\ UNCHANGED conn_result
          ELSE /\ Called("remove_device:err")
               /\ returnConnect("Err:UnpairFailed")
               /\ UNCHANGED platform
    /\ UNCHANGED << loopVars, config, i, scan, fetchLocals, fetch_result >>

Exhausted ==
    /\ pc = "exhausted"
    /\ returnConnect("Err:ConnectionExhausted")
    /\ UNCHANGED << loopVars, config, platform, i, scan, fetchLocals,
                    fetch_result, calls >>

\* main's match on connect_to_device: Ok(d) => d, Err(e) => continue
\* (variant: the Err arm falls through to fetch_data).
MutMatchConnect ==
    /\ pc = "connect_returned"
    /\ pc' = "services"
    /\ UNCHANGED << loopVars, config, platform, i, conn_result, scan,
                    fetchLocals, fetch_result, calls >>

MatchConnect ==
    /\ pc = "connect_returned"
    /\ pc' = IF conn_result = "Ok" THEN "services" ELSE "loop"
    /\ UNCHANGED << loopVars, config, platform, i, conn_result, scan,
                    fetchLocals, fetch_result, calls >>

\* ------------------------------------------------------------- fetch_data

\* fetch_data returns r to main's match.
returnFetch(r) ==
    /\ fetch_result' = r
    /\ pc' = "fetch_returned"

\* device.services(): the tree the device exposes in this cycle.
ServicesFrom(trees) ==
    /\ pc = "services"
    /\ Called("services")
    /\ \E ok \in BOOLEAN :
          IF ok
          THEN /\ \E t \in trees : tree' = SomeTree(t)
               /\ pc' = "enumerate"
               /\ UNCHANGED fetch_result
          ELSE /\ returnFetch(FetchErr("CharacteristicsNotFound"))
               /\ UNCHANGED tree
    /\ UNCHANGED << loopVars, config, platform, i, conn_result, scan,
                    notify_char, write_char, timer_elapsed, notif_stream,
                    select_arm >>

ServicesCall == ServicesFrom(SampleTrees)
AnyServicesCall == ServicesFrom(Trees)

\* The two statements of fetch_data between find_characteristics and the
\* select!, in program order (variant: the write comes first).
MutFetchOrder == << "write", "subscribe" >>
FetchOrder == << "subscribe", "write" >>
\* The statement after statement s (variant: the write is repeated).
MutStepAfter(s) == FetchOrder[2]
StepAfter(s) == IF s = FetchOrder[1] THEN FetchOrder[2] ELSE "select"

\* The loops of find_characteristics (a failing characteristics() or uuid()
\* ends them with the error) and the two ok_or_else.  Every error of
\* find_characteristics reaches main under fetch_data's context message.
EnumerateTree ==
    /\ pc = "enumerate"
    /\ \E ok \in BOOLEAN :
          LET nw == Enumerate(tree.t, 1, 1, NoChar, NoChar) IN
          IF ok /\ Resolved(nw)
          THEN /\ notify_char' = nw[1]
               /\ write_char' = nw[2]
               /\ pc' = FetchOrder[1]
               /\ UNCHANGED fetch_result
          ELSE /\ returnFetch(FetchErr("CharacteristicsNotFound"))
               /\ UNCHANGED << notify_char, write_char >>
    /\ UNCHANGED << loopVars, config, platform, i, conn_result, scan, tree,
                    timer_elapsed, notif_stream, select_arm, calls >>

\* notify_char.notify().await?
Subscribe ==
    /\ pc = "subscribe"
    /\ tree' = NoTree
    /\ notify_char' = NoChar
    /\ \E ok \in BOOLEAN :
          IF ok
          THEN /\ Called("notify")
               /\ notif_stream' = StreamEmpty
               /\ pc' = StepAfter("subscribe")
               /\ UNCHANGED fetch_result
          ELSE /\ Called("notify:err")
               /\ returnFetch(FetchErr("Platform"))
               /\ UNCHANGED notif_stream
    /\ UNCHANGED << loopVars, config, platform, i, conn_result, scan,
                    write_char, timer_elapsed, select_arm >>

\* write_char.write(b"autopid -d\n").await?
Write ==
    /\ pc = "write"
    /\ tree' = NoTree
    /\ write_char' = NoChar
    /\ \E ok \in BOOLEAN :
          IF ok
          THEN /\ Called("write")
               /\ pc' = StepAfter("write")
               /\ UNCHANGED fetch_result
          ELSE /\ Called("write:err")
               /\ returnFetch(FetchErr("Platform"))
    /\ UNCHANGED << loopVars, config, platform, i, conn_result, scan,
                    notify_char, timer_elapsed, notif_stream, select_arm >>

\* The deadline of time::sleep(wican_timeout) passes.
TimerElapses ==
    /\ pc = "select"
    /\ ~timer_elapsed
    /\ timer_elapsed' = TRUE
    /\ UNCHANGED << pc, loopVars, config, platform, i, conn_result, scan,
                    tree, notify_char, write_char, notif_stream, select_arm,
                    fetch_result, calls >>

\* The peripheral's first notification reaches the open subscription.
NotificationFrom(payloads) ==
    /\ pc \in {"subscribe", "write", "select"}
    /\ notif_stream = StreamEmpty
    /\ \E p \in payloads : notif_stream' = StreamItem(p)
    /\ UNCHANGED << pc, loopVars, config, platform, i, conn_result, scan,
                    tree, notify_char, write_char, timer_elapsed, select_arm,
                    fetch_result, calls >>

NotificationArrives == NotificationFrom(SamplePayloads)
AnyNotificationArrives == NotificationFrom(AllPayloads)

\* The subscription ends with nothing delivered.
StreamEnds ==
    /\ pc \in {"subscribe", "write", "select"}
    /\ notif_stream = StreamEmpty
    /\ notif_stream' = StreamClosed
    /\ UNCHANGED << pc, loopVars, config, platform, i, conn_result, scan,
                    tree, notify_char, write_char, timer_elapsed, select_arm,
                    fetch_result, calls >>

\* select! completes with the timer's arm.
SelectTimer ==
    /\ pc = "select"
    /\ timer_elapsed
    /\ select_arm' = "timer"
    /\ returnFetch(TimeoutArm)
    /\ UNCHANGED << loopVars, config, platform, i, conn_result, scan, tree,
                    notify_char, write_char, timer_elapsed, notif_stream,
                    calls >>

\* select! completes with the arm of notif_stream.next().
SelectNotification ==
    /\ pc = "select"
    /\ notif_stream.st \in {"item", "closed"}
    /\ select_arm' = "notification"
    /\ returnFetch(NotificationArm(notif_stream, vehicle_battery_capacity))
    /\ UNCHANGED << loopVars, config, platform, i, conn_result, scan, tree,
                    notify_char, write_char, timer_elapsed, notif_stream,
                    calls >>

\* main's match on fetch_data: Ok(Some) is posted, Ok(None) ends the
\* cycle, Err(e) => continue
MatchFetch ==
    /\ pc = "fetch_returned"
    /\ pc' = IF fetch_result.tag = "Some" THEN "post" ELSE "loop"
    /\ UNCHANGED << loopVars, config, platform, i, conn_result, scan,
                    fetchLocals, fetch_result, calls >>

\* post_battery_data: a 2xx status, another status, or no response; main
\* logs an Err and the loop body ends.
PostOutcomes == {"2xx", "status", "transport"}
Post ==
    /\ pc = "post"
    /\ \E o \in PostOutcomes :
          Called(IF o = "2xx" THEN "post:ok" ELSE "post:err")
    /\ pc' = "loop"
    /\ UNCHANGED << loopVars, config, platform, i, conn_result, scan,
                    fetchLocals, fetch_result >>

\* ------------------------------------------------------- specifications

Next ==
    \/ FirstCycle \/ NextCycle \/ SessionNew \/ DefaultAdapter
    \/ Probe \/ Discover \/ ScanDeviceAdded \/ ScanOtherEvent
    \/ ScanStreamEnds \/ ScanTimeout
    \/ IsPaired \/ RegisterAgent \/ Pair
    \/ IsConnected \/ Connect \/ Backoff \/ RemoveDevice \/ Exhausted
    \/ MatchConnect
    \/ ServicesCall \/ EnumerateTree \/ Subscribe \/ Write
    \/ TimerElapses \/ NotificationArrives \/ StreamEnds
    \/ SelectTimer \/ SelectNotification \/ MatchFetch \/ Post

Spec == Init /\ [][Next]_vars

\* The same with the runtime's guarantee that the process takes a step
\* whenever one is possible (a due timer fires, a ready task is polled).
SpecLive == Init /\ [][Next]_vars /\ WF_vars(Next)

\* fetch_data alone, from its call by main with a connected device, on
\* every payload.
InitFetch ==
    /\ pc = "services"
    /\ first_run = FALSE
    /\ prev_exhausted = FALSE
    /\ max_retries = MaxRetries
    /\ vehicle_battery_capacity \in Capacities
    /\ dev = "resolved"
    /\ paired = TRUE
    /\ connected = TRUE
    /\ i = 0
    /\ conn_result = "Ok"
    /\ scan = "idle"
    /\ tree = NoTree
    /\ notify_char = NoChar
    /\ write_char = NoChar
    /\ timer_elapsed = FALSE
    /\ notif_stream = StreamIdle
    /\ select_arm = "none"
    /\ fetch_result = FetchPending
    /\ calls = << "is_services_resolved", "is_paired", "is_connected" >>

NextFetch ==
    \/ AnyServicesCall \/ EnumerateTree \/ Subscribe \/ Write
    \/ TimerElapses \/ AnyNotificationArrives \/ StreamEnds
    \/ SelectTimer \/ SelectNotification

SpecFetch == InitFetch /\ [][NextFetch]_vars

\* ------------------------------------------------------------ properties

Count(c) == Cardinality({k \in 1..Len(calls) : calls[k] = c})
Has(c) == Count(c) > 0
HasIn(cs, c) == \E k \in 1..Len(cs) : cs[k] = c
\* c occurs and every occurrence of c comes before every occurrence of d.
Before(c, d) ==
    /\ Has(c)
    /\ \A k \in 1..Len(calls) : \A l \in 1..Len(calls) :
          calls[k] = c /\ calls[l] = d => k < l
Removed == Has("remove_device:ok") \/ Has("remove_device:err")
WriteCalls == {"write", "write:err"}

\* C1: connect_to_device returns Ok(device) only when the device is
\* connected at the return, for every max_retries, 0 included.
C1_OkOnlyWhenConnected ==
    (pc = "connect_returned" /\ conn_result = "Ok") => connected

\* C2: when the device was not connected and the last of the max_retries
\* connect attempts has failed, remove_device has been called, after every
\* connect attempt, by the time connect_to_device returns; the return is
\* an error, and the error of a failed removal when the removal failed.
C2_RemovedBeforeExhausted ==
    ( /\ pc = "connect_returned"
      /\ max_retries >= 1
      /\ Count("connect:err") = max_retries )
    => /\ Removed
       /\ \A k \in 1..Len(calls) :
             calls[k] \in {"connect:ok", "connect:err"}
             => \E l \in (k + 1)..Len(calls) :
                   calls[l] \in {"remove_device:ok", "remove_device:err"}
       /\ conn_result \in {"Err:ConnectionExhausted", "Err:UnpairFailed"}
       /\ Has("remove_device:err") => conn_result = "Err:UnpairFailed"

C2_Witness ==
    /\ pc = "connect_returned"
    /\ max_retries >= 2
    /\ Count("connect:err") = max_retries
    /\ Has("remove_device:ok")
    /\ conn_result = "Err:ConnectionExhausted"

\* C3: in every cycle a write of the command, failed or not, comes after
\* an established subscription, and a cycle whose subscription failed has
\* no write.
C3_SubscribeBeforeWrite ==
    /\ \A k \in 1..Len(calls) :
          calls[k] \in WriteCalls => \E l \in 1..(k - 1) : calls[l] = "notify"
    /\ Has("notify:err") => ~Has("write") /\ ~Has("write:err")

C3_Witness ==
    /\ Before("notify", "write")
    /\ Has("write")
    /\ pc = "select"

\* C4: when fetch_data returns after the command was written and no
\* notification was delivered (the timer's arm completed on an empty
\* stream, or the stream ended without a value), it returns Ok(None).
C4_NoReplyIsNone ==
    ( /\ pc = "fetch_returned"
      /\ Has("write")
      /\ select_arm # "none"
      /\ notif_stream.st \in {"empty", "closed"} )
    => fetch_result = FetchNone

C4_Witness ==
    /\ pc = "fetch_returned"
    /\ Has("write")
    /\ select_arm = "timer"
    /\ notif_stream.st = "empty"
    /\ fetch_result = FetchNone

\* What String::from_utf8 or serde_json::from_str rejects.
NotParseable(p) == ~FromUtf8Ok(p) \/ ~FromStr(p).ok

\* C5: when the notification's arm completes with bytes that are not valid
\* UTF-8 or do not parse as a response, fetch_data returns the decode
\* error: not Ok(None), not a reading.  Bytes that are not UTF-8, text
\* that is not JSON, a JSON scalar and an object without a numeric
\* state of charge are among them.
C5_MalformedIsDecodeError ==
    /\ ( /\ pc = "fetch_returned"
         /\ select_arm = "notification"
         /\ notif_stream.st = "item"
         /\ NotParseable(notif_stream.item) )
       => fetch_result = FetchErr("DecodeError")
    /\ \A p \in {BadUtf8, NotJson, Scalar} : NotParseable(p)
    /\ ( /\ notif_stream.st = "item"
         /\ notif_stream.item.kind = "object"
         /\ Member(notif_stream.item.m, "soc").t # "num" )
       => NotParseable(notif_stream.item)

C5_Witness ==
    /\ pc = "fetch_returned"
    /\ select_arm = "notification"
    /\ notif_stream = StreamItem(BadUtf8)
    /\ fetch_result = FetchErr("DecodeError")

\* A response object as the peripheral protocol has it: SOC a number,
\* SOC_D and OUTDOOR_TEMPERATURE numbers when present, any other member
\* unrecognised.
WellFormed(m) ==
    /\ m["SOC"].t = "num"
    /\ m["SOC_D"].t \in {"num", "absent"}
    /\ m["OUTDOOR_TEMPERATURE"].t \in {"num", "absent"}

ReadingOf(m, cap) ==
    BatteryData(IF m["SOC_D"].t = "num" THEN Some(m["SOC_D"].v)
                ELSE Some(m["SOC"].v),
                IF m["OUTDOOR_TEMPERATURE"].t = "num"
                THEN Some(m["OUTDOOR_TEMPERATURE"].v) ELSE None,
                Some(cap))

\* C6: for every well-formed response the reading has percentage SOC_D
\* when SOC_D is present and SOC otherwise, the configured capacity, and
\* OUTDOOR_TEMPERATURE when present and no temperature otherwise.
C6_ReadingFromResponse ==
    ( /\ pc = "fetch_returned"
      /\ select_arm = "notification"
      /\ notif_stream.st = "item"
      /\ notif_stream.item.kind = "object"
      /\ WellFormed(notif_stream.item.m) )
    => fetch_result =
          FetchSome(ReadingOf(notif_stream.item.m, vehicle_battery_capacity))

\* The same for the responses that name every field by its alias only.
OnlyAliases(m) == \A f \in FieldNames : m[f] = Absent
C6_ReadingFromAliases ==
    ( /\ pc = "fetch_returned"
      /\ select_arm = "notification"
      /\ notif_stream.st = "item"
      /\ notif_stream.item.kind = "object"
      /\ WellFormed(notif_stream.item.m)
      /\ OnlyAliases(notif_stream.item.m) )
    => fetch_result =
          FetchSome(ReadingOf(notif_stream.item.m, vehicle_battery_capacity))

\* C7: when find_device starts with the device known and its services
\* resolved, it returns the handle and the cycle has no discover_devices:
\* a scan is started only by a find_device whose probe failed.
C7_ScanAvoidance ==
    [][ /\ (pc = "probe" /\ dev = "resolved")
           => (pc' = "is_paired" /\ ~HasIn(calls', "discover_devices"))
        /\ (~Has("discover_devices") /\ HasIn(calls', "discover_devices"))
           => pc = "discover"
        /\ (pc # "discover" /\ pc' = "discover")
           => (pc = "probe" /\ dev # "resolved") ]_vars

C7_Witness ==
    /\ pc = "is_paired"
    /\ dev = "resolved"
    /\ Has("is_services_resolved")
    /\ ~Has("discover_devices")

\* C8: when try_pair starts and the device reports paired, try_pair
\* returns Ok and the cycle registers no agent and makes no pair call: an
\* agent is registered and pair is called only by a try_pair that found the
\* device not paired.
C8_PairingIdempotent ==
    [][ /\ (pc = "is_paired" /\ paired /\ conn_result' = "pending")
           => /\ pc' = "is_connected"
              /\ ~HasIn(calls', "register_agent")
              /\ ~HasIn(calls', "pair")
        /\ (~Has("register_agent") /\ HasIn(calls', "register_agent"))
           => pc = "register_agent"
        /\ (~Has("pair") /\ HasIn(calls', "pair")) => pc = "pair"
        /\ (pc # "register_agent" /\ pc' = "register_agent")
           => (pc = "is_paired" /\ ~paired)
        /\ (pc # "pair" /\ pc' = "pair") => pc = "register_agent" ]_vars

C8_Witness ==
    /\ pc = "is_connected"
    /\ paired
    /\ Has("is_paired")
    /\ ~Has("register_agent")
    /\ ~Has("pair")

\* No characteristic of tree t has uuid u.
Lacks(t, u) == \A s \in 1..Len(t) : \A c \in 1..Len(t[s]) : t[s][c] # u
Incomplete(t) == Lacks(t, "WICAN_NOTIFY_UUID") \/ Lacks(t, "WICAN_WRITE_UUID")

\* C9: once a tree without the notify UUID, without the write UUID or
\* without both has been enumerated, fetch_data has returned the
\* characteristics-not-found error, holds neither characteristic and has
\* made no subscription and no write.
C9_BothOrError ==
    (tree.some /\ pc # "enumerate" /\ Incomplete(tree.t))
    => /\ pc = "fetch_returned"
       /\ fetch_result = FetchErr("CharacteristicsNotFound")
       /\ notify_char = NoChar
       /\ write_char = NoChar
       /\ \A k \in 1..Len(calls) :
             calls[k] \notin {"notify", "notify:err", "write", "write:err"}

C9_Witness ==
    /\ pc = "fetch_returned"
    /\ tree.some
    /\ Lacks(tree.t, "WICAN_WRITE_UUID")
    /\ ~Lacks(tree.t, "WICAN_NOTIFY_UUID")
    /\ fetch_result = FetchErr("CharacteristicsNotFound")

\* C10: no failure inside a cycle ends the process.
C10_NeverExits == pc # "exited"

\* C11: a scan that was started and sees no DeviceAdded for the address
\* ends (with the timeout error), whatever the event stream does.
C11_ScanTerminates == (pc = "scan") ~> (pc # "scan")

Writes == Count("write") + Count("write:err")

\* C12: a cycle has at most one write of the command, and exactly one once
\* the characteristics were resolved and the subscription was made; no
\* write follows a timeout, an ended stream or a decode failure.
C12_OneWritePerCycle ==
    /\ Writes <= 1
    /\ (Has("notify") /\ pc \in {"select", "fetch_returned", "post", "loop"})
       => Writes = 1
    /\ (pc \in {"fetch_returned", "post", "loop"} /\ select_arm # "none")
       => Writes = 1

C12_Witness ==
    /\ pc = "loop"
    /\ select_arm = "notification"
    /\ fetch_result = FetchErr("DecodeError")
    /\ Count("write") = 1

Returned == pc \in {"fetch_returned", "post", "loop"}

\* C13: one arm of the race decides the exchange.  When the timer's arm
\* completed the result is None, also when a notification has been
\* delivered by then; when the notification's arm completed the result is
\* that of the notification (None for an ended stream, the decode error, or
\* the reading), whether or not the deadline has passed.  A returned
\* exchange is one of reading, no reading, error, and only a reading
\* carries data.
C13_OneArmDecides ==
    Returned =>
       /\ select_arm = "timer" => fetch_result = FetchNone
       /\ (select_arm = "notification" /\ notif_stream.st = "closed")
          => fetch_result = FetchNone
       /\ (select_arm = "notification" /\ notif_stream.st = "item")
          => fetch_result =
                IF NotParseable(notif_stream.item)
                THEN FetchErr("DecodeError")
                ELSE FetchSome(MapReading(FromStr(notif_stream.item),
                                          vehicle_battery_capacity))
       /\ select_arm = "notification" => notif_stream.st \in {"item", "closed"}
       /\ select_arm = "none" => fetch_result.tag \in {"pending", "Err"}
       /\ fetch_result.tag \in {"pending", "Some", "None", "Err"}
       /\ fetch_result.tag # "Some" => fetch_result.data = NoData
       /\ fetch_result.tag # "Err" => fetch_result.err = ""

\* The timer's arm completed although a parseable notification was there.
C13_Witness ==
    /\ pc = "fetch_returned"
    /\ select_arm = "timer"
    /\ notif_stream.st = "item"
    /\ ~NotParseable(notif_stream.item)
    /\ fetch_result = FetchNone

ConnectCalls == {"connect:ok", "connect:err"}
\* The number of the connect attempt made by call k.
AttemptNo(k) == Cardinality({l \in 1..k : calls[l] \in ConnectCalls})
Attempts == AttemptNo(Len(calls))
\* connect_to_device has returned after asking is_connected() and getting
\* an answer.
PastIsConnected ==
    /\ pc = "connect_returned"
    /\ Has("is_connected")
    /\ conn_result # "Err:Platform"

ConnectDiscipline ==
    /\ Attempts <= max_retries
    /\ Attempts = 0 => (connected /\ conn_result = "Ok")
    /\ \A k \in 1..Len(calls) :
          /\ calls[k] = "connect:ok"
             => \A l \in (k + 1)..Len(calls) :
                   calls[l] \notin ConnectCalls \cup {"sleep_backoff"}
          /\ (calls[k] = "connect:err" /\ AttemptNo(k) < max_retries)
             => (k < Len(calls) /\ calls[k + 1] = "sleep_backoff")
          /\ (calls[k] = "connect:err" /\ AttemptNo(k) = max_retries)
             => \A l \in (k + 1)..Len(calls) : calls[l] # "sleep_backoff"
          /\ calls[k] = "sleep_backoff"
             => (k > 1 /\ calls[k - 1] = "connect:err")

\* C14: a cycle has no connect call when the device was already connected
\* and otherwise between 1 and max_retries; none follows a successful one;
\* the backoff follows each failed attempt but the last, and nothing else.
C14_ConnectAttempts == PastIsConnected => ConnectDiscipline

\* The same for max_retries of 1 and more.
C14_ForPositiveRetries ==
    (PastIsConnected /\ max_retries >= 1) => ConnectDiscipline

\* The stage an operation belongs to: 1 locate, 2 pair, 3 connect,
\* 4 resolve characteristics, 5 exchange, 6 post; 0 is the loop's own sleep.
Stage(c) ==
    CASE c = "sleep_update" -> 0
      [] c \in {"is_services_resolved", "discover_devices"} -> 1
      [] c \in {"is_paired", "register_agent", "pair"} -> 2
      [] c \in {"is_connected", "connect:ok", "connect:err", "sleep_backoff",
                "remove_device:ok", "remove_device:err"} -> 3
      [] c = "services" -> 4
      [] c \in {"notify", "notify:err", "write", "write:err"} -> 5
      [] c \in {"post:ok", "post:err"} -> 6
LastCall == calls[Len(calls)]
\* The stage that failed in this cycle, 7 when none has.
FailedStage ==
    CASE conn_result = "Err:DiscoveryTimeout" -> 1
      [] conn_result = "Err:PairingFailed" -> 2
      [] conn_result \in {"Err:ConnectionExhausted", "Err:UnpairFailed"} -> 3
      [] conn_result = "Err:Platform" -> Stage(LastCall)
      [] fetch_result = FetchErr("CharacteristicsNotFound") -> 4
      [] fetch_result.tag = "Err" -> 5
      [] Has("post:err") -> 6
      [] OTHER -> 7

\* C15: the operations of a cycle come in the order locate, pair, connect,
\* resolve characteristics, exchange, post; once a stage has failed no
\* operation of a later stage is in the cycle; the post is made only when
\* the exchange returned a reading.
C15_StagesAbort ==
    /\ \A k \in 1..Len(calls) : \A l \in k..Len(calls) :
          Stage(calls[k]) <= Stage(calls[l])
    /\ \A k \in 1..Len(calls) : Stage(calls[k]) <= FailedStage
    /\ conn_result = "Err:Platform"
       => LastCall \in {"discover_devices", "is_paired", "register_agent",
                        "is_connected"}
    /\ (\E k \in 1..Len(calls) : Stage(calls[k]) >= 4) => conn_result = "Ok"
    /\ Has("notify:err") => Writes = 0
    /\ (Has("post:ok") \/ Has("post:err"))
       => (conn_result = "Ok" /\ fetch_result.tag = "Some")
    /\ (pc = "loop" /\ ~first_run /\ fetch_result.tag = "Some")
       => (Has("post:ok") \/ Has("post:err"))

C15_Witness ==
    /\ pc = "loop"
    /\ conn_result = "Err:PairingFailed"
    /\ LastCall = "pair"

\* The places of the tree t that hold UUID u, and enumeration order on them.
Positions(t, u) ==
    {p \in (1..Len(t)) \X (1..MaxChars) : p[2] <= Len(t[p[1]]) /\ t[p[1]][p[2]] = u}
Earlier(p, q) == p[1] < q[1] \/ (p[1] = q[1] /\ p[2] < q[2])
\* find_characteristics has returned Ok((notify_char, write_char)).
CharsFound == pc = FetchOrder[1] /\ tree.some

\* C16: of several characteristics with the notify UUID (or the write
\* UUID) find_characteristics returns the first in enumeration order.
C16_FirstMatchWins ==
    CharsFound =>
       /\ notify_char \in Positions(tree.t, "WICAN_NOTIFY_UUID")
       /\ write_char \in Positions(tree.t, "WICAN_WRITE_UUID")
       /\ \A p \in Positions(tree.t, "WICAN_NOTIFY_UUID") : ~Earlier(p, notify_char)
       /\ \A p \in Positions(tree.t, "WICAN_WRITE_UUID") : ~Earlier(p, write_char)

\* What the two loops do: every match overwrites the Option, the last stays.
C16_LastMatchStays ==
    CharsFound =>
       /\ notify_char \in Positions(tree.t, "WICAN_NOTIFY_UUID")
       /\ write_char \in Positions(tree.t, "WICAN_WRITE_UUID")
       /\ \A p \in Positions(tree.t, "WICAN_NOTIFY_UUID") : ~Earlier(notify_char, p)
       /\ \A p \in Positions(tree.t, "WICAN_WRITE_UUID") : ~Earlier(write_char, p)

\* C17: find_device returns without a scan only when the adapter knows the
\* device and its services are resolved; when the device is unknown, or
\* known with unresolved services, it starts a discovery scan.
C17_ScanUnlessResolved ==
    [][pc = "probe" =>
          pc' = IF dev = "resolved" THEN "is_paired" ELSE "discover"]_vars

\* What the probe does: is_ok() of the Result, whatever the boolean in it.
C17_ScanUnlessKnown ==
    [][pc = "probe" =>
          pc' = IF Known(dev) THEN "is_paired" ELSE "discover"]_vars

\* C18: in the first cycle to locate the device after a cycle that removed
\* the pairing record and ended with ConnectionExhausted, the device is
\* unpaired until this cycle pairs it, and the agent registration and the
\* pair call come before is_connected and before every connect attempt.
C18_PairsFromScratch ==
    prev_exhausted =>
       /\ ~Has("pair") => ~paired
       /\ pc = "is_connected" => Has("is_paired")
       /\ \A k \in 1..Len(calls) :
             calls[k] \in ConnectCalls \cup {"is_connected"}
             => \E a \in 1..(k - 1) : \E b \in (a + 1)..(k - 1) :
                   /\ calls[a] = "register_agent"
                   /\ calls[b] = "pair"
                   /\ \E q \in 1..(a - 1) : calls[q] = "is_paired"

C18_Witness ==
    /\ prev_exhausted
    /\ pc = "connect_returned"
    /\ Before("pair", "connect:err")
    /\ Has("connect:ok")

\* The loop goes from one cycle to the next.
NewCycle == pc = "loop" /\ pc' # "loop"
\* C19: every cycle but the first starts with one sleep of the update
\* interval, whatever the cycle before returned (an error of any stage, no
\* reading, a reading); no cycle sleeps the interval twice or later on.
C19_SleepBeforeEveryCycle ==
    /\ [](/\ Count("sleep_update") <= 1
          /\ Has("sleep_update") => calls[1] = "sleep_update")
    /\ [][/\ NewCycle
             => /\ pc' = "session"
                /\ calls' = IF first_run THEN << >> ELSE << "sleep_update" >>
          /\ (pc # "loop" /\ pc' = "session") => UNCHANGED calls]_vars

C19_Witness ==
    /\ prev_exhausted
    /\ pc = "session"
    /\ calls = << "sleep_update" >>

RemoveCalls == {"remove_device:ok", "remove_device:err"}
RemoveCount == Count("remove_device:ok") + Count("remove_device:err")
\* C20: adapter.remove_device is called at most once in a cycle, and only
\* right after the max_retries-th connect attempt of the cycle failed, all
\* attempts before it having failed: never in a cycle where the device was
\* already connected, where a connect attempt succeeded, or where locating
\* or pairing failed.
C20_RemovedOnlyOnExhaustion ==
    /\ RemoveCount <= 1
    /\ \A k \in 1..Len(calls) :
          calls[k] \in RemoveCalls
          => /\ max_retries >= 1
             /\ AttemptNo(k) = max_retries
             /\ Count("connect:err") = max_retries
             /\ calls[k - 1] = "connect:err"
             /\ k = Len(calls)
    /\ Removed => ~Has("connect:ok")
    /\ Removed => Has("is_connected")
    /\ Removed
       => conn_result \in {"pending", "Err:ConnectionExhausted", "Err:UnpairFailed"}
    /\ conn_result \in {"Ok", "Err:DiscoveryTimeout", "Err:PairingFailed",
                        "Err:Platform"}
       => ~Removed

C20_Witness ==
    /\ pc = "connect_returned"
    /\ conn_result = "Err:ConnectionExhausted"
    /\ max_retries = 2
    /\ Count("connect:err") = 2
    /\ Count("sleep_backoff") = 1
    /\ LastCall = "remove_device:ok"

====
